---- MODULE Spec2Model ----
(***************************************************************************)
(* Model of the keyword-prevalence crawler (project_files/helpers.py and   *)
(* project_files/results.py).                                              *)
(*                                                                         *)
(* Python strings are modelled as sequences of one-character strings, so   *)
(* that indexing, slicing, splitting and joining are computed and not      *)
(* assumed.  Python lists are sequences.                                   *)
(***************************************************************************)
EXTENDS Integers, Sequences, FiniteSets, TLC

VARIABLES
    \* ---- text cleaner (helpers.clean_words_list / clean_bullet_list)
    clean_pc,               \* "start" | "cleaned" | "recleaned" | "bullets"
    words_list,             \* argument of clean_words_list
    cleaned_words_list,     \* its return value
    recleaned_words_list,   \* clean_words_list applied to its own output
    bullet_lists_organized, \* argument of clean_bullet_list
    cleaned_bullet_list,    \* its return value
    \* ---- keyword matcher (helpers.find_keyword_matches)
    match_pc,               \* "start" | "matched"
    kw_words_list,          \* argument words_list
    keyword_list,           \* argument keyword_list
    kw_result,              \* the returned pair (match_count, matched_words)
    \* ---- link filter (helpers.filter_links)
    links_pc,               \* "start" | "filtered"
    list_links,             \* argument list_links
    filtered_list_links,    \* the returned list
    \* ---- traversal (results.process_disciplines, helpers.find_all_matches,
    \*      helpers.search_subpages)
    pc,                     \* position in process_disciplines
    web,                    \* the site: title -> parsed page
    engineering_disciplines,\* argument of process_disciplines
    d_idx,                  \* index of the topic being processed
    discipline_matches,     \* the dictionary being built
    initial_matched_words,  \* list object shared by process_disciplines
                            \* and search_subpages (extended in place)
    initial_words,          \* list object shared likewise
    initial_match_count,    \* the integer held by process_disciplines
    initial_word_count,     \* the integer held by process_disciplines
    running_matched_words,  \* search_subpages' parameter
                            \* initial_matched_words: what the list it is
                            \* bound to holds
    running_words,          \* search_subpages' parameter initial_words,
                            \* likewise
    running_match_count,    \* search_subpages' own initial_match_count
    running_word_count,     \* search_subpages' own initial_word_count
    filtered_links,         \* search_subpages' filtered_links
    link_idx,               \* index of the next link of the for loop
    page,                   \* last tuple find_all_matches returned to
                            \* search_subpages
    fetched,                \* log of the calls of scrape_page
    terminology,            \* the module-level list
                            \* keyword_list.military_terminology
    \* ---- persistence (results.write_to_files, create_discipline_matches)
    files_pc,               \* "start" | "written" | "reloaded" | "raised"
    saved_matches,          \* argument of write_to_files: the dictionary's
                            \* items in insertion order
    files,                  \* the contents of the four text files
    reloaded_matches,       \* the dictionary create_discipline_matches returns
    \* ---- stacked bar chart (results.plot_stacked_bar_graph)
    plot_pc,                \* "start" | "shown" | "raised"
    plot_matches,           \* argument discipline_matches: its items in
                            \* insertion order
    chart                   \* what was drawn: None, or the bars and labels

clean_vars == <<clean_pc, words_list, cleaned_words_list, recleaned_words_list,
                bullet_lists_organized, cleaned_bullet_list>>

match_vars == <<match_pc, kw_words_list, keyword_list, kw_result>>

links_vars == <<links_pc, list_links, filtered_list_links>>

crawl_vars == <<pc, web, engineering_disciplines, d_idx, discipline_matches,
                initial_matched_words, initial_words, initial_match_count,
                initial_word_count, running_matched_words, running_words,
                running_match_count, running_word_count, filtered_links,
                link_idx, page, fetched, terminology>>

files_vars == <<files_pc, saved_matches, files, reloaded_matches>>

plot_vars == <<plot_pc, plot_matches, chart>>

vars == <<clean_vars, match_vars, links_vars, crawl_vars, files_vars,
          plot_vars>>

(***************************************************************************)
(* Bounds of the model.                                                    *)
(***************************************************************************)
\* Longest text (in characters, separators included) the cleaner is fed.
MaxTextLen == 5
\* Most links on a page (length of the argument of filter_links).
MaxLinks == 3
\* Most topics in the argument of process_disciplines.
MaxTopics == 2
\* Most topics of a dictionary written to the files.
MaxFileTopics == 2
\* Most words of a word list written to the files.
MaxFileWords == 2
\* Most topics of a dictionary given to the stacked bar chart.
MaxPlotTopics == 2
\* Largest count of a topic given to the stacked bar chart.
MaxPlotCount == 2

(***************************************************************************)
(* Generic string helpers (Python built-ins).                              *)
(***************************************************************************)
\* All sequences over S of length at most n.
SeqUpTo(S, n) == UNION {[1..k -> S] : k \in 0..n}

\* One-character stand-ins for U+00A0 (no-break space) and U+2013 (en dash).
NBSP == "nbsp"
EnDash == "endash"

\* The characters str.split() and str.strip() treat as whitespace, among
\* those that occur in the modelled texts.
Whitespace == {" ", "\t", "\n", "\r", NBSP}

\* s[from..] as a Python slice s[from-1:], empty when from is past the end.
Drop(s, n) == SubSeq(s, n + 1, Len(s))

RECURSIVE SplitFrom(_, _, _, _)
\* Python str.split(): maximal runs of non-whitespace, empties dropped.
\* i: next position, cur: the run being collected, acc: the runs so far.
SplitFrom(s, i, cur, acc) ==
    IF i > Len(s)
    THEN IF cur = <<>> THEN acc ELSE Append(acc, cur)
    ELSE IF s[i] \in Whitespace
         THEN SplitFrom(s, i + 1, <<>>,
                        IF cur = <<>> THEN acc ELSE Append(acc, cur))
         ELSE SplitFrom(s, i + 1, Append(cur, s[i]), acc)

Split(s) == SplitFrom(s, 1, <<>>, <<>>)

RECURSIVE Flatten(_)
\* list.extend over a list of lists.
Flatten(ss) == IF ss = <<>> THEN <<>> ELSE Head(ss) \o Flatten(Tail(ss))

(***************************************************************************)
(* helpers.clean_words_list                                                *)
(***************************************************************************)
\* helpers.py:83
filter_out == {".", ",", ":", "!", "?", ";", "\"", "-", "(", ")"}

\* CitationSkip running to the last "]" of the word, not the next one.
CitationSkipToLast(word, i) ==
    LET closing == {j \in (i + 1)..Len(word) : word[j] = "]"} IN
    IF closing = {} THEN Len(word)
    ELSE (CHOOSE j \in closing : \A m \in closing : m <= j) - 1

RECURSIVE CitationSkip(_, _)
\* helpers.py:101-102, the inner while: advance i until the next character
\* is "]" or the word ends.  Positions are 1-based here (i+1 < len(word)
\* in 0-based terms is i+1 <= Len(word) in 1-based terms).
CitationSkip(word, i) ==
    IF i + 1 <= Len(word) /\ word[i + 1] # "]"
    THEN CitationSkip(word, i + 1)
    ELSE i

\* ScanStep with the "continue" of helpers.py:98 missing.
ScanStepNoContinue(word, i, skip_next) ==
    LET character == word[i] IN
    IF skip_next
    THEN [i |-> i + 1, skip_next |-> FALSE, emit |-> <<>>]
    ELSE IF character \in filter_out
    \* the "continue" of helpers.py:98 is missing: the character is
    \* appended and the position advanced twice
    THEN [i |-> i + 2, skip_next |-> FALSE, emit |-> <<character>>]
    ELSE IF character = "["
    THEN [i |-> CitationSkip(word, i) + 1, skip_next |-> TRUE, emit |-> <<>>]
    ELSE [i |-> i + 1, skip_next |-> FALSE, emit |-> <<character>>]

\* ScanStep with the citation branch of helpers.py:99-105 missing.
ScanStepKeepBracket(word, i, skip_next) ==
    LET character == word[i] IN
    IF skip_next
    THEN [i |-> i + 1, skip_next |-> FALSE, emit |-> <<>>]
    ELSE IF character \in filter_out
    THEN [i |-> i + 1, skip_next |-> FALSE, emit |-> <<>>]
    \* the citation branch of helpers.py:99-105 is missing
    ELSE [i |-> i + 1, skip_next |-> FALSE, emit |-> <<character>>]

\* One iteration of the while loop at helpers.py:90-107 on position i with
\* the flag skip_next: the next position, the next flag and the characters
\* appended to cleaned_characters.
ScanStep(word, i, skip_next) ==
    LET character == word[i] IN
    IF skip_next
    THEN [i |-> i + 1, skip_next |-> FALSE, emit |-> <<>>]
    ELSE IF character \in filter_out
    THEN [i |-> i + 1, skip_next |-> FALSE, emit |-> <<>>]
    ELSE IF character = "["
    THEN [i |-> CitationSkip(word, i) + 1, skip_next |-> TRUE, emit |-> <<>>]
    ELSE [i |-> i + 1, skip_next |-> FALSE, emit |-> <<character>>]

RECURSIVE ScanWord(_, _, _, _)
\* The while loop at helpers.py:90-107 from position i on.
ScanWord(word, i, skip_next, cleaned_characters) ==
    IF i > Len(word)
    THEN cleaned_characters
    ELSE LET s == ScanStep(word, i, skip_next) IN
         ScanWord(word, s.i, s.skip_next, cleaned_characters \o s.emit)

\* helpers.py:87-108: the cleaned word of one token; skip_next is reset.
CleanWord(word) == ScanWord(word, 1, FALSE, <<>>)

\* helpers.py:109-110 without the emptiness test.
KeepCleanedKeepEmpty(cleaned_words, cleaned_word) ==
    Append(cleaned_words, cleaned_word)

\* helpers.py:109-110: a cleaned word is appended only when non-empty.
KeepCleaned(cleaned_words, cleaned_word) ==
    IF cleaned_word # <<>>
    THEN Append(cleaned_words, cleaned_word)
    ELSE cleaned_words

RECURSIVE CleanFrom(_, _, _)
\* The for loop at helpers.py:86-110 from the k-th word on.
CleanFrom(ws, k, acc) ==
    IF k > Len(ws)
    THEN acc
    ELSE CleanFrom(ws, k + 1, KeepCleaned(acc, CleanWord(ws[k])))

clean_words_list(ws) == CleanFrom(ws, 1, <<>>)

(***************************************************************************)
(* helpers.clean_bullet_list                                               *)
(***************************************************************************)
\* helpers.py:149-152
individual_bullet_words(bullets) ==
    Flatten([k \in 1..Len(bullets) |-> Split(bullets[k])])

clean_bullet_list(bullets) == clean_words_list(individual_bullet_words(bullets))

(***************************************************************************)
(* Specification of the text cleaner: the argument is drawn from the       *)
(* bounded texts, then the functions are applied.                          *)
(***************************************************************************)
\* Characters of the cleaner's inputs: letters, two punctuation characters,
\* the citation brackets, and the separator.
CleanAlphabet == {"a", "b", ".", "[", "]"}
CleanTexts == SeqUpTo(CleanAlphabet \cup {" "}, MaxTextLen)

\* test_helpers.py:24-43: the word lists of word_list_test_cases.
word_list_test_cases == {
    <<<<"S", "o", "m", "e">>,
      <<"e", "x", "a", "m", "p", "l", "e">>,
      <<"t", "e", "x", "t">>,
      <<"h", "a", "s">>,
      <<"c", "i", "t", "a", "t", "i", "o", "n", "s", ".", "[", "3", "]">>>>,
    <<<<".", ",", ":", "!", "?", ";", "\"", "-", "(", ")">>>>,
    <<<<"[", "1", "]", "[", "2", "]", "[", "3", "]", "[", "4", "]", "[", "5", "]">>>>,
    <<<<"[", "1", "]">>,
      <<"!">>,
      <<"[", "3", "]">>,
      <<".", ".", ".">>>>,
    <<<<"H", "e", "l", "l", "o">>,
      <<"-", "-", "-">>>>,
    <<<<"C", "i", "t", "a", "t", "i", "o", "n", "[", "3", "]">>,
      <<"h", "e", "r", "e">>,
      <<"a", "n", "d">>,
      <<"p", "u", "n", "c", "t", "u", "a", "t", "i", "o", "n">>,
      <<"h", "e", "r", "e", ".">>>>}

RECURSIVE TokensFrom(_, _, _, _)
\* The token list a text stands for: the text cut at every single space,
\* empty tokens kept (so that every token list within the size is drawn).
TokensFrom(s, i, cur, acc) ==
    IF i > Len(s)
    THEN Append(acc, cur)
    ELSE IF s[i] = " "
         THEN TokensFrom(s, i + 1, <<>>, Append(acc, cur))
         ELSE TokensFrom(s, i + 1, Append(cur, s[i]), acc)

\* The bullet lists a text stands for: the text cut in two at any position.
BulletLists(t) == {<<SubSeq(t, 1, k), Drop(t, k)>> : k \in 0..Len(t)}
                      \cup {<<t>>}

(***************************************************************************)
(* The vocabulary (keyword_list.military_terminology).  The module is not  *)
(* among the sources; the terms below are those its tests rely on.         *)
(***************************************************************************)
military_terminology == {<<"w", "a", "r">>, <<"a", "r", "m", "y">>, <<"n", "a", "v", "y">>, <<"a", "i", "r", "c", "r", "a", "f", "t">>}

NotComputed == "not computed"

\* The matcher's variables while another component is being exercised.
MatchIdle ==
    /\ match_pc = "idle"
    /\ kw_words_list = <<>>
    /\ keyword_list = {}
    /\ kw_result = NotComputed

\* The link filter's variables while another component is being exercised.
LinksIdle ==
    /\ links_pc = "idle"
    /\ list_links = <<>>
    /\ filtered_list_links = NotComputed

\* The traversal's variables while another component is being exercised.
CrawlIdle ==
    /\ pc = "idle"
    /\ web = <<>>
    /\ engineering_disciplines = <<>>
    /\ d_idx = 0
    /\ discipline_matches = <<>>
    /\ initial_matched_words = <<>>
    /\ initial_words = <<>>
    /\ initial_match_count = 0
    /\ initial_word_count = 0
    /\ running_matched_words = <<>>
    /\ running_words = <<>>
    /\ running_match_count = 0
    /\ running_word_count = 0
    /\ filtered_links = <<>>
    /\ link_idx = 0
    /\ page = NotComputed
    /\ fetched = <<>>
    /\ terminology = military_terminology

\* The persistence variables while another component is being exercised.
FilesIdle ==
    /\ files_pc = "idle"
    /\ saved_matches = <<>>
    /\ files = <<>>
    /\ reloaded_matches = <<>>

\* The chart's variables while another component is being exercised.
PlotIdle ==
    /\ plot_pc = "idle"
    /\ plot_matches = <<>>
    /\ chart = <<>>

CleanInit ==
    /\ MatchIdle
    /\ LinksIdle
    /\ CrawlIdle
    /\ FilesIdle
    /\ PlotIdle
    /\ clean_pc = "start"
    /\ \E t \in CleanTexts :
          \/ /\ words_list = TokensFrom(t, 1, <<>>, <<>>)
             /\ bullet_lists_organized = <<>>
          \/ /\ words_list \in word_list_test_cases
             /\ bullet_lists_organized = <<>>
          \/ /\ words_list = <<>>
             /\ bullet_lists_organized \in BulletLists(t)
    /\ cleaned_words_list = NotComputed
    /\ recleaned_words_list = NotComputed
    /\ cleaned_bullet_list = NotComputed

\* result = clean_words_list(words_list)
CleanWordsList ==
    /\ clean_pc = "start"
    /\ cleaned_words_list' = clean_words_list(words_list)
    /\ clean_pc' = "cleaned"
    /\ UNCHANGED <<words_list, recleaned_words_list, bullet_lists_organized,
                   cleaned_bullet_list>>
    /\ UNCHANGED <<match_vars, links_vars, crawl_vars, files_vars,
                   plot_vars>>

\* clean_words_list applied to the list it returned
CleanAgain ==
    /\ clean_pc = "cleaned"
    /\ recleaned_words_list' = clean_words_list(cleaned_words_list)
    /\ clean_pc' = "recleaned"
    /\ UNCHANGED <<words_list, cleaned_words_list, bullet_lists_organized,
                   cleaned_bullet_list>>
    /\ UNCHANGED <<match_vars, links_vars, crawl_vars, files_vars,
                   plot_vars>>

\* result = clean_bullet_list(bullet_lists_organized)
CleanBulletList ==
    /\ clean_pc = "start"
    /\ cleaned_bullet_list' = clean_bullet_list(bullet_lists_organized)
    /\ clean_pc' = "bullets"
    /\ UNCHANGED <<words_list, cleaned_words_list, recleaned_words_list,
                   bullet_lists_organized>>
    /\ UNCHANGED <<match_vars, links_vars, crawl_vars, files_vars,
                   plot_vars>>

CleanNext == CleanWordsList \/ CleanAgain \/ CleanBulletList

SpecClean == CleanInit /\ [][CleanNext]_vars

(***************************************************************************)
(* Properties of the text cleaner.                                         *)
(***************************************************************************)
\* A '[' ... ']' run: an opening bracket with a closing bracket after it.
HasCitationSpan(w) ==
    \E i \in 1..Len(w) : \E j \in 1..Len(w) : i < j /\ w[i] = "[" /\ w[j] = "]"

HasPunctuation(w) == \E i \in 1..Len(w) : w[i] \in filter_out

CleanOutputOk(out) ==
    \A k \in 1..Len(out) : ~HasPunctuation(out[k]) /\ ~HasCitationSpan(out[k])

\* C3: no element of the output of clean_words_list (nor of
\* clean_bullet_list, which calls it) contains a character of the
\* punctuation set or a bracketed citation span.
C3_NoPunctuationNoCitation ==
    /\ clean_pc \in {"cleaned", "recleaned"} => CleanOutputOk(cleaned_words_list)
    /\ clean_pc = "bullets" => CleanOutputOk(cleaned_bullet_list)

\* C3 witness: a token holding a citation span, punctuation and a letter
\* has been cleaned into a word.
C3_Witness ==
    /\ clean_pc = "cleaned"
    /\ \E k \in 1..Len(words_list) :
          HasCitationSpan(words_list[k]) /\ HasPunctuation(words_list[k])
    /\ cleaned_words_list # <<>>

RECURSIVE OnlyPunctuationOrCitation(_, _)
\* The token, from position i on, consists of punctuation characters and
\* citation markers only; a marker runs from '[' through the first ']'
\* after it, or to the end of the token when there is none.
OnlyPunctuationOrCitation(w, i) ==
    IF i > Len(w) THEN TRUE
    ELSE IF w[i] \in filter_out THEN OnlyPunctuationOrCitation(w, i + 1)
    ELSE IF w[i] = "["
    THEN LET closing == {j \in (i + 1)..Len(w) : w[j] = "]"} IN
         IF closing = {} THEN TRUE
         ELSE OnlyPunctuationOrCitation(
                  w, (CHOOSE j \in closing : \A m \in closing : j <= m) + 1)
    ELSE FALSE

\* The tokens that yield a word, in input order.
Yielding(tokens) ==
    SelectSeq(tokens, LAMBDA w : ~OnlyPunctuationOrCitation(w, 1))

\* out holds one non-empty element per yielding token, at its relative
\* position, and nothing for the other tokens.
OrderKeptEmptiesOmitted(tokens, out) ==
    /\ Len(out) = Len(Yielding(tokens))
    /\ \A k \in 1..Len(out) :
          out[k] # <<>> /\ out[k] = CleanWord(Yielding(tokens)[k])

\* C4: clean_words_list, and clean_bullet_list on the whitespace-split
\* bullets, return the cleaned words in input order with empties omitted:
\* a token made only of punctuation and citation markers yields no element,
\* every other token yields exactly one element at its relative position.
C4_OrderKeptEmptiesOmitted ==
    /\ clean_pc \in {"cleaned", "recleaned"} =>
          OrderKeptEmptiesOmitted(words_list, cleaned_words_list)
    /\ clean_pc = "bullets" =>
          OrderKeptEmptiesOmitted(
              individual_bullet_words(bullet_lists_organized),
              cleaned_bullet_list)

\* C4 witness: a token of punctuation/citation only stands between two
\* tokens that yield different words, and both words are returned in order.
C4_Witness ==
    /\ clean_pc = "cleaned"
    /\ Len(words_list) = 3
    /\ words_list[2] # <<>> /\ OnlyPunctuationOrCitation(words_list[2], 1)
    /\ Len(cleaned_words_list) = 2
    /\ cleaned_words_list[1] # cleaned_words_list[2]

\* C5: clean_words_list is idempotent: cleaning its own output returns
\* that output unchanged.
C5_Idempotent ==
    clean_pc = "recleaned" => recleaned_words_list = cleaned_words_list

\* C5 witness: the first pass changed the input (punctuation and a citation
\* bracket were removed) and the second pass has run on a non-empty output.
C5_Witness ==
    /\ clean_pc = "recleaned"
    /\ cleaned_words_list # <<>>
    /\ cleaned_words_list # words_list
    /\ \E k \in 1..Len(words_list) :
          HasPunctuation(words_list[k]) /\ "[" \in {words_list[k][i] : i \in 1..Len(words_list[k])}

RECURSIVE ReferenceClean(_, _)
\* The reference result for a token from position i on: a '[' starts a
\* span that runs through the first ']' after it, or to the end of the
\* token when none follows, and the span is dropped; outside spans the
\* characters of the punctuation set are dropped and every other character
\* is emitted, in order.
ReferenceClean(w, i) ==
    IF i > Len(w) THEN <<>>
    ELSE IF w[i] = "["
    THEN LET closing == {j \in (i + 1)..Len(w) : w[j] = "]"} IN
         IF closing = {} THEN <<>>
         ELSE ReferenceClean(
                  w, (CHOOSE j \in closing : \A m \in closing : j <= m) + 1)
    ELSE IF w[i] \in filter_out THEN ReferenceClean(w, i + 1)
    ELSE <<w[i]>> \o ReferenceClean(w, i + 1)

RECURSIVE SkipsOnlyClosing(_, _, _)
\* Along the scan of the word from position i on, whenever the skip-next
\* flag is set on entry to an iteration, the character it discards is "]".
SkipsOnlyClosing(word, i, skip_next) ==
    IF i > Len(word) THEN TRUE
    ELSE /\ skip_next => word[i] = "]"
         /\ LET s == ScanStep(word, i, skip_next) IN
                SkipsOnlyClosing(word, s.i, s.skip_next)

ScanIsReference(tokens, out) ==
    /\ \A k \in 1..Len(tokens) :
          /\ CleanWord(tokens[k]) = ReferenceClean(tokens[k], 1)
          /\ SkipsOnlyClosing(tokens[k], 1, FALSE)
    /\ out = SelectSeq([k \in 1..Len(tokens) |-> ReferenceClean(tokens[k], 1)],
                       LAMBDA w : w # <<>>)

\* C12: for every token the word built by the scan of clean_words_list is
\* the reference result (citation spans from '[' through the first
\* following ']' or to the end of the token dropped, punctuation dropped,
\* every other character emitted in order), back-to-back markers are each
\* removed, and the skip-next flag discards only the closing ']' of a span.
C12_ScanIsReference ==
    /\ clean_pc \in {"cleaned", "recleaned"} =>
          ScanIsReference(words_list, cleaned_words_list)
    /\ clean_pc = "bullets" =>
          ScanIsReference(individual_bullet_words(bullet_lists_organized),
                          cleaned_bullet_list)

\* C12 witness: the token of the test "[1][2][3][4][5]" (back-to-back
\* markers only) has been cleaned to nothing.
C12_Witness ==
    /\ clean_pc = "cleaned"
    /\ words_list =
          <<<<"[", "1", "]", "[", "2", "]", "[", "3", "]", "[", "4", "]", "[", "5", "]">>>>
    /\ cleaned_words_list = <<>>

(***************************************************************************)
(* helpers.find_keyword_matches                                            *)
(***************************************************************************)
UpperCase == <<"A", "B", "C", "D", "E", "F", "G", "H", "I", "J", "K", "L", "M",
               "N", "O", "P", "Q", "R", "S", "T", "U", "V", "W", "X", "Y", "Z">>
LowerCase == <<"a", "b", "c", "d", "e", "f", "g", "h", "i", "j", "k", "l", "m",
               "n", "o", "p", "q", "r", "s", "t", "u", "v", "w", "x", "y", "z">>

\* str.lower() on one character (the letters A-Z; others are unchanged).
LowerChar(c) ==
    IF \E k \in 1..Len(UpperCase) : UpperCase[k] = c
    THEN LowerCase[CHOOSE k \in 1..Len(UpperCase) : UpperCase[k] = c]
    ELSE c

\* str.lower()
Lower(word) == [k \in 1..Len(word) |-> LowerChar(word[k])]

\* helpers.py:174-177 with the word itself appended, not its lower case.
MatchStepAppendRaw(acc, word, keywords) ==
    LET lowercase_word == Lower(word) IN
    IF lowercase_word \in keywords
    THEN [match_count |-> acc.match_count + 1,
          matched_words |-> Append(acc.matched_words, word)]
    ELSE acc

\* helpers.py:174-177: the body of the for loop.
MatchStep(acc, word, keywords) ==
    LET lowercase_word == Lower(word) IN
    IF lowercase_word \in keywords
    THEN [match_count |-> acc.match_count + 1,
          matched_words |-> Append(acc.matched_words, lowercase_word)]
    ELSE acc

RECURSIVE MatchFrom(_, _, _, _)
\* helpers.py:173-177: the for loop from the k-th word on.
MatchFrom(ws, keywords, k, acc) ==
    IF k > Len(ws)
    THEN acc
    ELSE MatchFrom(ws, keywords, k + 1, MatchStep(acc, ws[k], keywords))

\* helpers.py:158-178; the returned pair as a record.
find_keyword_matches(ws, keywords) ==
    MatchFrom(ws, keywords, 1, [match_count |-> 0, matched_words |-> <<>>])

(***************************************************************************)
(* Specification of the keyword matcher.                                   *)
(***************************************************************************)
MatchAlphabet == {"a", "A", "b"}
MatchTexts == SeqUpTo(MatchAlphabet \cup {" "}, MaxTextLen)

\* Vocabularies: the subsets of a few terms (one of them not lower-case,
\* which no lower-cased word can equal).
TermPool == {<<"a">>, <<"b">>, <<"a", "b">>, <<"A">>}

CleanIdle ==
    /\ clean_pc = "idle"
    /\ words_list = <<>>
    /\ cleaned_words_list = NotComputed
    /\ recleaned_words_list = NotComputed
    /\ bullet_lists_organized = <<>>
    /\ cleaned_bullet_list = NotComputed

MatchInit ==
    /\ CleanIdle
    /\ LinksIdle
    /\ CrawlIdle
    /\ FilesIdle
    /\ PlotIdle
    /\ match_pc = "start"
    /\ \E t \in MatchTexts : kw_words_list = Split(t)
    /\ keyword_list \in SUBSET TermPool
    /\ kw_result = NotComputed

\* result = find_keyword_matches(words_list, keyword_list); the function
\* assigns to neither argument.
FindKeywordMatches ==
    /\ match_pc = "start"
    /\ kw_result' = find_keyword_matches(kw_words_list, keyword_list)
    /\ match_pc' = "matched"
    /\ UNCHANGED <<kw_words_list, keyword_list>>
    /\ UNCHANGED <<clean_vars, links_vars, crawl_vars, files_vars,
                   plot_vars>>

MatchNext == FindKeywordMatches

SpecMatch == MatchInit /\ [][MatchNext]_vars

\* The lower-cased words.
LowerAll(ws) == [k \in 1..Len(ws) |-> Lower(ws[k])]

\* C6: find_keyword_matches returns (count, matched) where matched is the
\* sequence of the lower-cased input words that are members of the
\* vocabulary, in input order with duplicates kept, and count is its
\* length; the arguments are left as they were.
C6_KeywordMatches ==
    [][match_pc = "start" /\ match_pc' = "matched" =>
         /\ kw_result'.matched_words =
                SelectSeq(LowerAll(kw_words_list), LAMBDA w : w \in keyword_list)
         /\ kw_result'.match_count = Len(kw_result'.matched_words)
         /\ kw_words_list' = kw_words_list
         /\ keyword_list' = keyword_list]_vars

\* C6 witness: a word that is not lower-case matched, a word matched twice
\* and was counted twice, and a word outside the vocabulary was passed over.
C6_Witness ==
    /\ match_pc = "matched"
    /\ \E k \in 1..Len(kw_words_list) :
          kw_words_list[k] # Lower(kw_words_list[k])
          /\ Lower(kw_words_list[k]) \in keyword_list
    /\ \E i \in 1..Len(kw_result.matched_words) :
       \E j \in 1..Len(kw_result.matched_words) :
          i < j /\ kw_result.matched_words[i] = kw_result.matched_words[j]
    /\ kw_result.match_count >= 2
    /\ kw_result.match_count < Len(kw_words_list)

(***************************************************************************)
(* helpers.filter_links                                                    *)
(***************************************************************************)
\* str.startswith
StartsWith(s, prefix) ==
    Len(prefix) <= Len(s) /\ SubSeq(s, 1, Len(prefix)) = prefix

RECURSIVE ContainsFrom(_, _, _)
\* "sub in s" for strings, scanning the start positions from i on.
ContainsFrom(s, sub, i) ==
    IF i + Len(sub) - 1 > Len(s) THEN FALSE
    ELSE IF SubSeq(s, i, i + Len(sub) - 1) = sub THEN TRUE
    ELSE ContainsFrom(s, sub, i + 1)

Contains(s, sub) == ContainsFrom(s, sub, 1)

\* helpers.py:216
WikiPrefix == <<"/", "w", "i", "k", "i", "/">>
\* helpers.py:218
second_round_filter == <<<<"/", "w", "i", "k", "i", "/", "M", "a", "i", "n", "_", "p", "a", "g", "e">>, <<":">>>>

RECURSIVE ShouldKeepFrom(_, _)
\* helpers.py:221-225: should_keep, testing the filter items from the k-th.
ShouldKeepFrom(item, k) ==
    IF k > Len(second_round_filter) THEN TRUE
    ELSE IF Contains(item, second_round_filter[k]) THEN FALSE
    ELSE ShouldKeepFrom(item, k + 1)

\* helpers.py:214-217 with a substring test in place of startswith.
FirstRoundAnywhere(links) ==
    SelectSeq(links, LAMBDA item : Contains(item, WikiPrefix))

\* helpers.py:214-217: the links that start with "/wiki/".
FirstRound(links) ==
    SelectSeq(links, LAMBDA item : StartsWith(item, WikiPrefix))

\* helpers.py:219-227: the links that contain no item of the filter.
SecondRound(links) ==
    SelectSeq(links, LAMBDA item : ShouldKeepFrom(item, 1))

\* helpers.py:201-228
filter_links(links) == SecondRound(FirstRound(links))

(***************************************************************************)
(* Specification of the link filter.                                       *)
(***************************************************************************)
\* The href values the filter is fed.
LinkPool == {
    <<"/", "w", "i", "k", "i", "/", "A">>,
    <<"/", "w", "i", "k", "i", "/", "B">>,
    <<"/", "w", "i", "k", "i", "/", "M", "a", "i", "n", "_", "p", "a", "g", "e">>,
    <<"/", "w", "i", "k", "i", "/", "M", "a", "i", "n", "_", "p", "a", "g", "e", "s">>,
    <<"/", "w", "i", "k", "i", "/", "A", ":", "B">>,
    <<"x", "/", "w", "i", "k", "i", "/", "A">>,
    <<"/", "w", "i", "k", "i", "/">>,
    <<"/", "w", "/", "A">> }

LinksInit ==
    /\ CleanIdle
    /\ MatchIdle
    /\ CrawlIdle
    /\ FilesIdle
    /\ PlotIdle
    /\ links_pc = "start"
    /\ list_links \in SeqUpTo(LinkPool, MaxLinks)
    /\ filtered_list_links = NotComputed

\* result = filter_links(list_links); the argument is not assigned to.
FilterLinks ==
    /\ links_pc = "start"
    /\ filtered_list_links' = filter_links(list_links)
    /\ links_pc' = "filtered"
    /\ UNCHANGED list_links
    /\ UNCHANGED <<clean_vars, match_vars, crawl_vars, files_vars,
                   plot_vars>>

LinksNext == FilterLinks

SpecLinks == LinksInit /\ [][LinksNext]_vars

HomePage == <<"/", "w", "i", "k", "i", "/", "M", "a", "i", "n", "_", "p", "a", "g", "e">>

HasColon(link) == \E k \in 1..Len(link) : link[k] = ":"

\* The home-page link occurs in the link at some position.
HasHomePage(link) ==
    \E k \in 1..Len(link) :
        k + Len(HomePage) - 1 <= Len(link)
        /\ \A m \in 1..Len(HomePage) : link[k + m - 1] = HomePage[m]

HasWikiPrefix(link) ==
    Len(link) >= Len(WikiPrefix)
    /\ \A m \in 1..Len(WikiPrefix) : link[m] = WikiPrefix[m]

\* C7 as stated: filter_links keeps exactly the links that start with
\* "/wiki/", are not equal to "/wiki/Main_page" and contain no ':', in
\* input order with duplicates kept.
C7_KeepsAllButEqualHome ==
    links_pc = "filtered" =>
        filtered_list_links =
            SelectSeq(list_links, LAMBDA l :
                HasWikiPrefix(l) /\ l # HomePage /\ ~HasColon(l))

\* C7 as amended: filter_links keeps exactly the links that start with
\* "/wiki/", do not contain "/wiki/Main_page" as a substring and contain no
\* ':', in input order with duplicates kept.
C7_FilterLinks ==
    links_pc = "filtered" =>
        filtered_list_links =
            SelectSeq(list_links, LAMBDA l :
                HasWikiPrefix(l) /\ ~HasHomePage(l) /\ ~HasColon(l))

\* C7 witness: a list holding the same valid link twice and a longer link
\* that begins with the home-page link has been filtered down to the two
\* copies of the valid link.
C7_Witness ==
    /\ links_pc = "filtered"
    /\ Len(list_links) = 3
    /\ \E k \in 1..3 : HasHomePage(list_links[k]) /\ list_links[k] # HomePage
    /\ Len(filtered_list_links) = 2
    /\ filtered_list_links[1] = filtered_list_links[2]

(***************************************************************************)
(* Page extraction (helpers.get_words_from_paragraphs, find_bullet_words,  *)
(* find_links).  A parsed page (the BeautifulSoup object) is a record of   *)
(* what these functions read from it:                                      *)
(*   paragraphs: the text of each <p>, in document order;                  *)
(*   uls: for each <ul>, whether it has a preceding and a following <p>    *)
(*        sibling, and the text of its <li> items;                         *)
(*   anchors: the href of each <a>, NoHref when the attribute is absent.   *)
(***************************************************************************)
\* The href of an anchor without the attribute (link.get returns None): a
\* value that is no string.
NoHref == <<"no href">>
\* scrape_page's return value: the parsed page as a one-element sequence,
\* or None (after a failed request, helpers.py:40,43,46) as the empty one.
None == <<>>
Parsed(soup) == <<soup>>

\* helpers.py:60-65
get_words_from_paragraphs(soup) ==
    Flatten([k \in 1..Len(soup.paragraphs) |-> Split(soup.paragraphs[k])])

RECURSIVE RemoveNbspDash(_, _)
\* helpers.py:132: str.replace("\xa0–", ""), from position i on.
RemoveNbspDash(s, i) ==
    IF i > Len(s) THEN <<>>
    ELSE IF i + 1 <= Len(s) /\ s[i] = NBSP /\ s[i + 1] = EnDash
    THEN RemoveNbspDash(s, i + 2)
    ELSE <<s[i]>> \o RemoveNbspDash(s, i + 1)

\* helpers.py:127-134
find_bullet_words(soup) ==
    Flatten([k \in 1..Len(soup.uls) |->
        IF soup.uls[k].prev_p /\ soup.uls[k].next_p
        THEN [m \in 1..Len(soup.uls[k].items) |->
                 RemoveNbspDash(soup.uls[k].items[m], 1)]
        ELSE <<>>])

\* helpers.py:192-198: the hrefs that are present and not empty.
find_links(soup) ==
    SelectSeq(soup.anchors, LAMBDA href : href # NoHref /\ href # <<>>)

(***************************************************************************)
(* helpers.find_all_matches on a fetched page                              *)
(***************************************************************************)
\* helpers.py:246-279 with the list matches placed before the paragraph
\* matches.
PageResultListMatchesFirst(soup) ==
    LET cleaned_words == clean_words_list(get_words_from_paragraphs(soup))
        cleaned_bullets == clean_bullet_list(find_bullet_words(soup))
        m1 == find_keyword_matches(cleaned_words, terminology)
        m2 == find_keyword_matches(cleaned_bullets, terminology)
        total_words == cleaned_words \o cleaned_bullets
    IN  [matched_words |-> m2.matched_words \o m1.matched_words,
         match_count |-> m1.match_count + m2.match_count,
         total_words |-> total_words,
         total_word_count |-> Len(total_words)]

\* helpers.py:246-279: the returned tuple, given the parsed page that
\* scrape_page returned (not None).
PageResult(soup) ==
    LET cleaned_words == clean_words_list(get_words_from_paragraphs(soup))
        cleaned_bullets == clean_bullet_list(find_bullet_words(soup))
        m1 == find_keyword_matches(cleaned_words, terminology)
        m2 == find_keyword_matches(cleaned_bullets, terminology)
        total_words == cleaned_words \o cleaned_bullets
    IN  [matched_words |-> m1.matched_words \o m2.matched_words,
         match_count |-> m1.match_count + m2.match_count,
         total_words |-> total_words,
         total_word_count |-> Len(total_words)]

\* helpers.py:315 with the slice starting one character early.
SubpageTitleKeepSlash(link) == Drop(link, 5)

\* helpers.py:315: link[6:]
SubpageTitle(link) == Drop(link, 6)

\* helpers.py:311-312
LinksToVisit(soup) == filter_links(find_links(soup))

\* helpers.py:317-320 with the word count not added.
AccumulateForgetWordCount(acc, p) ==
    [matched_words |-> acc.matched_words \o p.matched_words,
     match_count |-> acc.match_count + p.match_count,
     total_words |-> acc.total_words \o p.total_words,
     total_word_count |-> acc.total_word_count]

\* helpers.py:317-320 with the page's words placed in front.
AccumulatePrepend(acc, p) ==
    [matched_words |-> p.matched_words \o acc.matched_words,
     match_count |-> acc.match_count + p.match_count,
     total_words |-> p.total_words \o acc.total_words,
     total_word_count |-> acc.total_word_count + p.total_word_count]

\* helpers.py:317-320: the four += of the loop body.
Accumulate(acc, p) ==
    [matched_words |-> acc.matched_words \o p.matched_words,
     match_count |-> acc.match_count + p.match_count,
     total_words |-> acc.total_words \o p.total_words,
     total_word_count |-> acc.total_word_count + p.total_word_count]

\* helpers.py:317,319 as "x = x + y": the parameter is bound to a new list
\* and the list of the caller stays as it was.
CallerListAfterRebinding(caller_list, extended) == caller_list

\* helpers.py:317,319: "+=" on a list extends the list object in place and
\* leaves the parameter bound to it; process_disciplines passed that very
\* object (results.py:54-57), so its own name reads the extended list.
CallerListAfter(caller_list, extended) == extended

\* helpers.py:318,320: "+=" on an int binds the parameter to a new int; the
\* integer process_disciplines holds is not changed.
CallerCountAfter(caller_count, increased) == caller_count

\* An entry stored earlier, were the lists of find_all_matches shared
\* between its calls (module-level lists, or mutable default arguments).
StoredEntryAfterSharedLists(entry, matched_words, total_words) ==
    [entry EXCEPT !.final_matched_words = matched_words,
                  !.total_words = total_words]

\* helpers.py:246-248: every call of find_all_matches builds its result in
\* lists it creates, and search_subpages extends those; the lists of an
\* entry stored for an earlier topic (results.py:61-66) are other objects,
\* so the entry reads the same whatever the lists being built now hold.
StoredEntryAfter(entry, matched_words, total_words) == entry

\* The dictionary while the lists of the current topic are built.
StoredAfter(matched_words, total_words) ==
    [t \in DOMAIN discipline_matches |->
        StoredEntryAfter(discipline_matches[t], matched_words, total_words)]

(***************************************************************************)
(* Specification of the traversal: process_disciplines over a site.        *)
(***************************************************************************)
\* Pages the site may hold.
SoupRich ==
    [paragraphs |-> <<<<"W", "a", "r", ",", " ", "a", "r", "m", "y", ".", "[", "1", "]">>,
                      <<"x">>>>,
     uls |-> <<[prev_p |-> TRUE, next_p |-> TRUE,
                items |-> <<<<"N", "a", "v", "y", NBSP, EnDash, " ", "y">>>>],
               [prev_p |-> TRUE, next_p |-> FALSE,
                items |-> <<<<"w", "a", "r">>>>]>>,
     anchors |-> <<<<"/", "w", "i", "k", "i", "/", "B">>, NoHref, <<"/", "w", "i", "k", "i", "/", "B">>,
                   <<"/", "w", "i", "k", "i", "/", "M", "a", "i", "n", "_", "p", "a", "g", "e">>,
                   <<"/", "w", "i", "k", "i", "/", "C", ":", "x">>,
                   <<"#", "t", "o", "p">>, <<>>,
                   <<"/", "w", "i", "k", "i", "/", "C">>>>]

SoupLinked ==
    [paragraphs |-> <<<<"n", "a", "v", "y", " ", "z">>>>,
     uls |-> <<>>,
     anchors |-> <<<<"/", "w", "i", "k", "i", "/", "A">>>>]

SoupList ==
    [paragraphs |-> <<<<"a", " ", "(", "w", "a", "r", ")">>>>,
     uls |-> <<[prev_p |-> TRUE, next_p |-> TRUE,
                items |-> <<<<"[", "2", "]", " ", "A", "r", "m", "y", ".">>, <<"b">>>>]>>,
     anchors |-> <<>>]

SoupEmpty == [paragraphs |-> <<>>, uls |-> <<>>, anchors |-> <<>>]

SoupPool == {SoupRich, SoupLinked, SoupList, SoupEmpty}

\* No page under the title: every request for it fails (HTTP 404).
NoPage == <<>>

Titles == {<<"A">>, <<"B">>, <<"C">>}

HasPage(title) == title \in DOMAIN web /\ web[title] # NoPage

\* helpers.py:30-46: what scrape_page(title) may return: the parsed page,
\* or None after an HTTP error, a timeout or another request error (which
\* any request may meet).
ScrapeOutcomes(title) ==
    IF HasPage(title) THEN {Parsed(web[title][1]), None} ELSE {None}

CrawlInit ==
    /\ CleanIdle
    /\ MatchIdle
    /\ LinksIdle
    /\ FilesIdle
    /\ PlotIdle
    /\ pc = "loop"
    /\ web \in [Titles -> {Parsed(soup) : soup \in SoupPool} \cup {NoPage}]
    /\ engineering_disciplines \in SeqUpTo(Titles, MaxTopics)
    /\ d_idx = 1
    /\ discipline_matches = <<>>
    /\ initial_matched_words = <<>>
    /\ initial_words = <<>>
    /\ initial_match_count = 0
    /\ initial_word_count = 0
    /\ running_matched_words = <<>>
    /\ running_words = <<>>
    /\ running_match_count = 0
    /\ running_word_count = 0
    /\ filtered_links = <<>>
    /\ link_idx = 0
    /\ page = NotComputed
    /\ fetched = <<>>
    /\ terminology = military_terminology

\* The topic of the current iteration of results.py:40.
discipline == engineering_disciplines[d_idx]

Logged(title, soup) == Append(fetched, [title |-> title, ok |-> soup # None])

\* results.py:41-47: find_all_matches(title) on the seed page returns.
FindAllMatchesSeed ==
    /\ pc = "loop"
    /\ d_idx <= Len(engineering_disciplines)
    /\ \E soup \in ScrapeOutcomes(discipline) :
          /\ soup # None
          /\ fetched' = Logged(discipline, soup)
          /\ LET r == PageResult(soup[1]) IN
                /\ initial_matched_words' = r.matched_words
                /\ initial_match_count' = r.match_count
                /\ initial_words' = r.total_words
                /\ initial_word_count' = r.total_word_count
                /\ discipline_matches' =
                      StoredAfter(r.matched_words, r.total_words)
    /\ pc' = "seed_done"
    /\ UNCHANGED <<web, engineering_disciplines, d_idx,
                   running_matched_words, running_words,
                   running_match_count, running_word_count, filtered_links,
                   link_idx, page, terminology>>
    /\ UNCHANGED <<clean_vars, match_vars, links_vars, files_vars,
                   plot_vars>>

\* helpers.py:250-251: scrape_page returned None and
\* get_words_from_paragraphs calls None.find_all: AttributeError, which
\* nothing catches.
FindAllMatchesSeedRaises ==
    /\ pc = "loop"
    /\ d_idx <= Len(engineering_disciplines)
    /\ None \in ScrapeOutcomes(discipline)
    /\ fetched' = Logged(discipline, None)
    /\ pc' = "raised"
    /\ UNCHANGED <<web, engineering_disciplines, d_idx, discipline_matches,
                   initial_matched_words, initial_words, initial_match_count,
                   initial_word_count, running_matched_words, running_words,
                   running_match_count, running_word_count, filtered_links,
                   link_idx, page, terminology>>
    /\ UNCHANGED <<clean_vars, match_vars, links_vars, files_vars,
                   plot_vars>>

\* helpers.py:310-312: search_subpages fetches the seed page again and
\* filters its links.  Its list parameters are bound to the caller's list
\* objects, its integer parameters hold the caller's values.
SearchSubpagesStart ==
    /\ pc = "seed_done"
    /\ \E soup \in ScrapeOutcomes(discipline) :
          /\ soup # None
          /\ fetched' = Logged(discipline, soup)
          /\ filtered_links' = LinksToVisit(soup[1])
    /\ running_matched_words' = initial_matched_words
    /\ running_words' = initial_words
    /\ running_match_count' = initial_match_count
    /\ running_word_count' = initial_word_count
    /\ link_idx' = 1
    /\ page' = NotComputed
    /\ pc' = "subpages"
    /\ UNCHANGED <<web, engineering_disciplines, d_idx, discipline_matches,
                   initial_matched_words, initial_words, initial_match_count,
                   initial_word_count, terminology>>
    /\ UNCHANGED <<clean_vars, match_vars, links_vars, files_vars,
                   plot_vars>>

\* helpers.py:310-311: scrape_page returned None and find_links calls
\* None.find_all: AttributeError.
SearchSubpagesStartRaises ==
    /\ pc = "seed_done"
    /\ None \in ScrapeOutcomes(discipline)
    /\ fetched' = Logged(discipline, None)
    /\ pc' = "raised"
    /\ UNCHANGED <<web, engineering_disciplines, d_idx, discipline_matches,
                   initial_matched_words, initial_words, initial_match_count,
                   initial_word_count, running_matched_words, running_words,
                   running_match_count, running_word_count, filtered_links,
                   link_idx, page, terminology>>
    /\ UNCHANGED <<clean_vars, match_vars, links_vars, files_vars,
                   plot_vars>>

\* helpers.py:313-320: one iteration of the for loop: the four += on
\* search_subpages' parameters, and what process_disciplines' own names
\* read afterwards.
SearchSubpagesLink ==
    /\ pc = "subpages"
    /\ link_idx <= Len(filtered_links)
    /\ LET title == SubpageTitle(filtered_links[link_idx]) IN
       \E soup \in ScrapeOutcomes(title) :
          /\ soup # None
          /\ fetched' = Logged(title, soup)
          /\ LET r == PageResult(soup[1])
                 acc == Accumulate(
                            [matched_words |-> running_matched_words,
                             match_count |-> running_match_count,
                             total_words |-> running_words,
                             total_word_count |-> running_word_count], r)
             IN /\ page' = r
                /\ running_matched_words' = acc.matched_words
                /\ running_match_count' = acc.match_count
                /\ running_words' = acc.total_words
                /\ running_word_count' = acc.total_word_count
                /\ initial_matched_words' =
                      CallerListAfter(initial_matched_words,
                                      acc.matched_words)
                /\ initial_words' =
                      CallerListAfter(initial_words, acc.total_words)
                /\ initial_match_count' =
                      CallerCountAfter(initial_match_count, acc.match_count)
                /\ initial_word_count' =
                      CallerCountAfter(initial_word_count,
                                       acc.total_word_count)
                /\ discipline_matches' =
                      StoredAfter(acc.matched_words, acc.total_words)
    /\ link_idx' = link_idx + 1
    /\ UNCHANGED <<pc, web, engineering_disciplines, d_idx, filtered_links,
                   terminology>>
    /\ UNCHANGED <<clean_vars, match_vars, links_vars, files_vars,
                   plot_vars>>

\* helpers.py:314 -> 250-251: the subpage's request failed: AttributeError.
SearchSubpagesLinkRaises ==
    /\ pc = "subpages"
    /\ link_idx <= Len(filtered_links)
    /\ LET title == SubpageTitle(filtered_links[link_idx]) IN
          /\ None \in ScrapeOutcomes(title)
          /\ fetched' = Logged(title, None)
    /\ pc' = "raised"
    /\ UNCHANGED <<web, engineering_disciplines, d_idx, discipline_matches,
                   initial_matched_words, initial_words, initial_match_count,
                   initial_word_count, running_matched_words, running_words,
                   running_match_count, running_word_count, filtered_links,
                   link_idx, page, terminology>>
    /\ UNCHANGED <<clean_vars, match_vars, links_vars, files_vars,
                   plot_vars>>

\* helpers.py:321-326 and results.py:48-66: search_subpages returns its
\* four parameters and the topic's entry is stored.
StoreTopic ==
    /\ pc = "subpages"
    /\ link_idx > Len(filtered_links)
    /\ discipline_matches' =
          [t \in DOMAIN discipline_matches \cup {discipline} |->
              IF t = discipline
              THEN [final_matched_words |-> running_matched_words,
                    final_match_count |-> running_match_count,
                    total_words |-> running_words,
                    total_word_count |-> running_word_count]
              ELSE discipline_matches[t]]
    /\ d_idx' = d_idx + 1
    /\ pc' = "loop"
    /\ UNCHANGED <<web, engineering_disciplines, initial_matched_words,
                   initial_words, initial_match_count, initial_word_count,
                   running_matched_words, running_words,
                   running_match_count, running_word_count, filtered_links,
                   link_idx, page, fetched, terminology>>
    /\ UNCHANGED <<clean_vars, match_vars, links_vars, files_vars,
                   plot_vars>>

\* results.py:67
ReturnMatches ==
    /\ pc = "loop"
    /\ d_idx > Len(engineering_disciplines)
    /\ pc' = "returned"
    /\ UNCHANGED <<web, engineering_disciplines, d_idx, discipline_matches,
                   initial_matched_words, initial_words, initial_match_count,
                   initial_word_count, running_matched_words, running_words,
                   running_match_count, running_word_count, filtered_links,
                   link_idx, page, fetched, terminology>>
    /\ UNCHANGED <<clean_vars, match_vars, links_vars, files_vars,
                   plot_vars>>

CrawlNext ==
    \/ FindAllMatchesSeed
    \/ FindAllMatchesSeedRaises
    \/ SearchSubpagesStart
    \/ SearchSubpagesStartRaises
    \/ SearchSubpagesLink
    \/ SearchSubpagesLinkRaises
    \/ StoreTopic
    \/ ReturnMatches

SpecCrawl == CrawlInit /\ [][CrawlNext]_vars

(***************************************************************************)
(* Properties of the traversal.                                            *)
(***************************************************************************)
SomeFetchFailed == \E k \in 1..Len(fetched) : ~fetched[k].ok

\* C1: when the fetch of a single page fails (the seed page in
\* find_all_matches, its second fetch in search_subpages, or a subpage),
\* the traversal does not abort: it goes on and an aggregate is returned.
C1_FetchFailureTolerated == SomeFetchFailed => pc # "raised"

Consistent(matched_words, match_count, total_words, total_word_count) ==
    match_count = Len(matched_words) /\ total_word_count = Len(total_words)

\* C2: match_count = len(matched_words) and total_word_count =
\* len(total_words) for the seed page's result when find_all_matches
\* returns it, for every subpage's result, for the aggregate of
\* search_subpages before and after each link, and for every stored topic.
C2_CountsEqualLengths ==
    /\ pc = "seed_done" =>
          Consistent(initial_matched_words, initial_match_count,
                     initial_words, initial_word_count)
    /\ pc = "subpages" =>
          /\ Consistent(running_matched_words, running_match_count,
                        running_words, running_word_count)
          /\ link_idx > 1 =>
                Consistent(page.matched_words, page.match_count,
                           page.total_words, page.total_word_count)
    /\ \A t \in DOMAIN discipline_matches :
          Consistent(discipline_matches[t].final_matched_words,
                     discipline_matches[t].final_match_count,
                     discipline_matches[t].total_words,
                     discipline_matches[t].total_word_count)

\* C2 witness: a topic is stored whose seed page and subpages contributed
\* words and matches, found both in paragraphs and in list items.
C2_Witness ==
    /\ pc = "returned"
    /\ \E t \in DOMAIN discipline_matches :
          /\ web[t] = Parsed(SoupRich)
          /\ discipline_matches[t].final_match_count > 3
          /\ discipline_matches[t].total_word_count >
                discipline_matches[t].final_match_count

\* The words of one page: cleaned paragraph words, then cleaned list words.
PageWords(soup) ==
    clean_words_list(get_words_from_paragraphs(soup))
        \o clean_bullet_list(find_bullet_words(soup))

\* The matches of one page: paragraph matches, then list matches.
PageMatches(soup) ==
    SelectSeq(LowerAll(clean_words_list(get_words_from_paragraphs(soup))),
              LAMBDA w : w \in military_terminology)
        \o SelectSeq(LowerAll(clean_bullet_list(find_bullet_words(soup))),
                     LAMBDA w : w \in military_terminology)

\* The filtered outbound links of the topic's page, in page order.
TopicLinks(topic) == filter_links(find_links(web[topic][1]))

\* The pages of a topic's traversal up to its n-th filtered link: the seed
\* page first, then the linked pages in link order.
TopicPages(topic, n) ==
    <<web[topic][1]>> \o
        [k \in 1..n |-> web[Drop(TopicLinks(topic)[k], Len(WikiPrefix))][1]]

RECURSIVE SumLen(_)
SumLen(ss) == IF ss = <<>> THEN 0 ELSE Len(Head(ss)) + SumLen(Tail(ss))

IsSumOfPages(pages, matched_words, match_count, total_words, total_word_count) ==
    LET ms == [k \in 1..Len(pages) |-> PageMatches(pages[k])]
        ws == [k \in 1..Len(pages) |-> PageWords(pages[k])]
    IN  /\ matched_words = Flatten(ms)
        /\ match_count = SumLen(ms)
        /\ total_words = Flatten(ws)
        /\ total_word_count = SumLen(ws)

\* C8: the aggregate of a topic is the seed page's result plus the
\* field-wise sum over the filtered subpages: counts are sums of per-page
\* counts, sequences are concatenations, seed page first and then the
\* subpages in filtered-link order (a repeated link contributes again);
\* within a page paragraph words precede list words and paragraph matches
\* precede list matches.  Checked after every link and for stored topics.
C8_AggregateIsSumOfPages ==
    /\ pc = "subpages" =>
          IsSumOfPages(TopicPages(discipline, link_idx - 1),
                       running_matched_words, running_match_count,
                       running_words, running_word_count)
    /\ \A t \in DOMAIN discipline_matches :
          IsSumOfPages(TopicPages(t, Len(TopicLinks(t))),
                       discipline_matches[t].final_matched_words,
                       discipline_matches[t].final_match_count,
                       discipline_matches[t].total_words,
                       discipline_matches[t].total_word_count)

\* C8 witness: a stored topic whose seed page has paragraph and list words
\* and links the same subpage twice and a different subpage after it, the
\* two subpages having different words.
C8_Witness ==
    /\ pc = "returned"
    /\ \E t \in DOMAIN discipline_matches :
          /\ web[t] = Parsed(SoupRich)
          /\ web[<<"B">>] = Parsed(SoupLinked)
          /\ web[<<"C">>] = Parsed(SoupList)

Titled(log) == [k \in 1..Len(log) |-> log[k].title]

IsPrefix(p, q) == Len(p) <= Len(q) /\ SubSeq(q, 1, Len(p)) = p

\* The fetches of one topic: the seed page, the seed page again, then the
\* title part of each filtered link of the seed page, in link order.
TopicFetches(topic) ==
    IF HasPage(topic)
    THEN <<topic, topic>> \o
         [k \in 1..Len(TopicLinks(topic)) |->
             Drop(TopicLinks(topic)[k], Len(WikiPrefix))]
    ELSE <<topic>>

\* The fetches of the first n topics.
FetchesUpTo(n) ==
    Flatten([k \in 1..n |-> TopicFetches(engineering_disciplines[k])])

Min(a, b) == IF a <= b THEN a ELSE b

\* C9: traversal is one hop: the pages fetched are, per topic and in order,
\* the seed page, the seed page again, and the page named by the title part
\* of each filtered link of the seed page; links of subpages are not
\* followed and no other page is fetched.  The log is always a prefix of
\* that sequence, and is that sequence whenever a topic is completed.
C9_OneHopFetches ==
    /\ IsPrefix(Titled(fetched),
                FetchesUpTo(Min(d_idx, Len(engineering_disciplines))))
    /\ pc \in {"loop", "returned"} => Titled(fetched) = FetchesUpTo(d_idx - 1)

\* C9 witness: the run is complete, a subpage that was fetched holds an
\* article link to a page different from the topic, and that page was never
\* fetched.
C9_Witness ==
    /\ pc = "returned"
    /\ Len(engineering_disciplines) = 1
    /\ web[engineering_disciplines[1]] = Parsed(SoupLinked)
    /\ web[<<"A">>] = Parsed(SoupRich)
    /\ engineering_disciplines[1] # <<"A">>
    /\ \E k \in 1..Len(fetched) : fetched[k].title = <<"A">>
    /\ \A k \in 1..Len(fetched) : fetched[k].title # <<"B">>

\* The entry is the aggregate of the topic's own traversal: a function of
\* the topic and of the site, of nothing else.
IsOwnAggregate(t, entry) ==
    IsSumOfPages(TopicPages(t, Len(TopicLinks(t))),
                 entry.final_matched_words, entry.final_match_count,
                 entry.total_words, entry.total_word_count)

\* The step stores the entry of topic t (results.py:61-66).
Stores(t) == pc = "subpages" /\ pc' = "loop" /\ t = discipline

\* C11: topics share no mutable state.  Every topic starts from its own
\* seed page's result and its stored entry is the aggregate of its own
\* traversal; no step taken for a later topic changes any of the four
\* fields of an entry stored for another topic, and no entry is removed;
\* the vocabulary is never modified.
C11_TopicsShareNoState ==
    /\ [](/\ pc = "seed_done" =>
                /\ initial_matched_words = PageMatches(web[discipline][1])
                /\ initial_words = PageWords(web[discipline][1])
          /\ \A t \in DOMAIN discipline_matches :
                IsOwnAggregate(t, discipline_matches[t])
          /\ terminology = military_terminology)
    /\ [][/\ terminology' = terminology
          /\ \A t \in DOMAIN discipline_matches :
                /\ t \in DOMAIN discipline_matches'
                /\ ~Stores(t) =>
                      discipline_matches'[t] = discipline_matches[t]]_vars

\* C11 witness: two different topics are stored, both with words and
\* matches; the traversal of the later one fetched the earlier topic's
\* page and added that page's words to its own lists.
C11_Witness ==
    /\ pc = "returned"
    /\ Len(engineering_disciplines) = 2
    /\ engineering_disciplines[1] # engineering_disciplines[2]
    /\ DOMAIN discipline_matches =
          {engineering_disciplines[1], engineering_disciplines[2]}
    /\ \E k \in 1..Len(TopicLinks(engineering_disciplines[2])) :
          Drop(TopicLinks(engineering_disciplines[2])[k], Len(WikiPrefix))
              = engineering_disciplines[1]
    /\ \A t \in DOMAIN discipline_matches :
          discipline_matches[t].final_match_count > 0
    /\ discipline_matches[engineering_disciplines[1]]
          # discipline_matches[engineering_disciplines[2]]

\* search_subpages is running for the current topic.
InSubpages == pc = "subpages"

\* search_subpages has returned and process_disciplines has not yet bound
\* its names anew.
AfterSubpages == pc \in {"loop", "returned"} /\ d_idx > 1

\* The topic search_subpages is running for, or has last returned for.
SubpagesTopic ==
    IF pc = "subpages" THEN discipline ELSE engineering_disciplines[d_idx - 1]

\* The subpages search_subpages has visited so far for that topic.
SubpagesVisited ==
    IF pc = "subpages" THEN link_idx - 1 ELSE Len(TopicLinks(SubpagesTopic))

\* C14: search_subpages accumulates in place.  The lists it holds and
\* returns are the lists process_disciplines passed in, extended with every
\* visited subpage's words, so they read the same under the caller's names
\* and the stored lists are the caller's; the caller's two integers stay
\* the seed page's counts.  Hence the caller's seed-page lists hold the
\* aggregate, and as soon as a subpage contributed a word (a match) the
\* caller's word count (match count) differs from the length of its list.
C14_AccumulatesInPlace ==
    (InSubpages \/ AfterSubpages) =>
        LET seed == web[SubpagesTopic][1]
            pages == TopicPages(SubpagesTopic, SubpagesVisited)
        IN  /\ initial_matched_words = running_matched_words
            /\ initial_words = running_words
            /\ initial_words =
                  Flatten([k \in 1..Len(pages) |-> PageWords(pages[k])])
            /\ initial_matched_words =
                  Flatten([k \in 1..Len(pages) |-> PageMatches(pages[k])])
            /\ initial_match_count = Len(PageMatches(seed))
            /\ initial_word_count = Len(PageWords(seed))
            /\ (\E k \in 2..Len(pages) : PageWords(pages[k]) # <<>>) =>
                  initial_word_count # Len(initial_words)
            /\ (\E k \in 2..Len(pages) : PageMatches(pages[k]) # <<>>) =>
                  initial_match_count # Len(initial_matched_words)
            /\ AfterSubpages =>
                  /\ discipline_matches[SubpagesTopic].final_matched_words
                        = initial_matched_words
                  /\ discipline_matches[SubpagesTopic].total_words
                        = initial_words

\* C14 witness: search_subpages has returned for a topic whose seed page has
\* words and matches and whose subpages contributed words and matches: the
\* caller's lists are longer than its counts say.
C14_Witness ==
    /\ pc = "returned"
    /\ d_idx > 1
    /\ initial_match_count > 0
    /\ initial_match_count < Len(initial_matched_words)
    /\ initial_word_count < Len(initial_words)
    /\ running_word_count = Len(initial_words)

RECURSIVE IsSubsequence(_, _)
\* a is b with some elements left out: same relative order, duplicates
\* kept.
IsSubsequence(a, b) ==
    IF a = <<>> THEN TRUE
    ELSE IF b = <<>> THEN FALSE
    ELSE IF Head(a) = Head(b) THEN IsSubsequence(Tail(a), Tail(b))
    ELSE IsSubsequence(a, Tail(b))

MatchesAmongWords(matched_words, match_count, total_words, total_word_count) ==
    /\ IsSubsequence(matched_words, LowerAll(total_words))
    /\ match_count <= total_word_count

\* C15: in every per-page result of find_all_matches and in every
\* aggregate search_subpages builds from them (running or stored), the
\* matched words are a subsequence of the lower-cased total words, and the
\* match count is at most the total word count.
C15_MatchesAmongWords ==
    /\ pc = "seed_done" =>
          MatchesAmongWords(initial_matched_words, initial_match_count,
                            initial_words, initial_word_count)
    /\ pc = "subpages" =>
          /\ MatchesAmongWords(running_matched_words, running_match_count,
                               running_words, running_word_count)
          /\ link_idx > 1 =>
                MatchesAmongWords(page.matched_words, page.match_count,
                                  page.total_words, page.total_word_count)
    /\ \A t \in DOMAIN discipline_matches :
          MatchesAmongWords(discipline_matches[t].final_matched_words,
                            discipline_matches[t].final_match_count,
                            discipline_matches[t].total_words,
                            discipline_matches[t].total_word_count)

\* C15 witness: a stored aggregate of several pages with paragraph and list
\* matches, a repeated match, words that match only after lower-casing and
\* words that do not match.
C15_Witness ==
    /\ pc = "returned"
    /\ \E t \in DOMAIN discipline_matches :
          LET e == discipline_matches[t] IN
          /\ web[t] = Parsed(SoupRich)
          /\ Len(TopicLinks(t)) > 0
          /\ \E j, k \in 1..Len(e.final_matched_words) :
                j # k /\ e.final_matched_words[j] = e.final_matched_words[k]
          /\ LowerAll(e.total_words) # e.total_words
          /\ e.final_match_count < e.total_word_count

(***************************************************************************)
(* Persistence (results.write_to_files, results.create_discipline_matches) *)
(***************************************************************************)
Digits == <<"0", "1", "2", "3", "4", "5", "6", "7", "8", "9">>

RECURSIVE IntToStr(_)
\* str(n) for n >= 0 (the f-strings of results.py:97,101).
IntToStr(n) ==
    IF n < 10 THEN <<Digits[n + 1]>>
    ELSE IntToStr(n \div 10) \o <<Digits[(n % 10) + 1]>>

IsDigit(c) == \E k \in 1..10 : Digits[k] = c
DigitValue(c) == (CHOOSE k \in 1..10 : Digits[k] = c) - 1

\* int(s) fails (ValueError) unless s is a non-empty run of digits.
IsInt(s) == s # <<>> /\ \A k \in 1..Len(s) : IsDigit(s[k])

RECURSIVE StrToInt(_)
\* int(s) for a run of digits.
StrToInt(s) ==
    IF s = <<>> THEN 0
    ELSE 10 * StrToInt(SubSeq(s, 1, Len(s) - 1)) + DigitValue(s[Len(s)])

RECURSIVE Join(_, _)
\* sep.join(words)
Join(sep, words) ==
    IF words = <<>> THEN <<>>
    ELSE IF Len(words) = 1 THEN words[1]
    ELSE words[1] \o sep \o Join(sep, Tail(words))

RECURSIVE SplitOnFrom(_, _, _, _)
\* str.split(sep): cut at the occurrences of sep, found left to right
\* without overlap; i: next position, cur: the part being collected.
SplitOnFrom(s, sep, i, cur) ==
    IF i > Len(s) THEN <<cur>>
    ELSE IF i + Len(sep) - 1 <= Len(s) /\ SubSeq(s, i, i + Len(sep) - 1) = sep
    THEN <<cur>> \o SplitOnFrom(s, sep, i + Len(sep), <<>>)
    ELSE SplitOnFrom(s, sep, i + 1, Append(cur, s[i]))

SplitOn(s, sep) == SplitOnFrom(s, sep, 1, <<>>)

RECURSIVE LStrip(_)
LStrip(s) ==
    IF s # <<>> /\ Head(s) \in Whitespace THEN LStrip(Tail(s)) ELSE s

RECURSIVE RStrip(_)
RStrip(s) ==
    IF s # <<>> /\ s[Len(s)] \in Whitespace
    THEN RStrip(SubSeq(s, 1, Len(s) - 1)) ELSE s

\* str.strip()
Strip(s) == LStrip(RStrip(s))

RECURSIVE LinesFrom(_, _, _)
\* Iterating a text file: the lines, each with its "\n".
LinesFrom(s, i, cur) ==
    IF i > Len(s) THEN IF cur = <<>> THEN <<>> ELSE <<cur>>
    ELSE IF s[i] = "\n" THEN <<Append(cur, s[i])>> \o LinesFrom(s, i + 1, <<>>)
    ELSE LinesFrom(s, i + 1, Append(cur, s[i]))

Lines(s) == LinesFrom(s, 1, <<>>)

\* results.py:88,93,97,101: one line of a file.
WriteLine(topic, payload) == topic \o <<":", " ">> \o payload \o <<"\n">>

\* results.py:85-101: the contents of the four files, the dictionary's
\* items written in order.
write_to_files(items) ==
    [final_matched_words |->
        Flatten([k \in 1..Len(items) |->
            WriteLine(items[k].topic,
                      Join(<<" ">>, items[k].entry.final_matched_words))]),
     total_words |->
        Flatten([k \in 1..Len(items) |->
            WriteLine(items[k].topic,
                      Join(<<" ">>, items[k].entry.total_words))]),
     final_match_counts |->
        Flatten([k \in 1..Len(items) |->
            WriteLine(items[k].topic,
                      IntToStr(items[k].entry.final_match_count))]),
     total_word_counts |->
        Flatten([k \in 1..Len(items) |->
            WriteLine(items[k].topic,
                      IntToStr(items[k].entry.total_word_count))])]

\* results.py:129 with the line cut at ":" instead of ": ".
LinePartsAtColon(line) == SplitOn(line, <<":">>)

\* results.py:129,136,143,150: line.split(": ")
LineParts(line) == SplitOn(line, <<":", " ">>)

\* The unpacking "discipline, x = line.split(...)" raises ValueError unless
\* there are exactly two parts.
Unpacks(line) == Len(LineParts(line)) = 2

\* results.py:127-138: a word file parses when every line unpacks.
WordFileParses(file) == \A k \in 1..Len(Lines(file)) : Unpacks(Lines(file)[k])

\* results.py:141-152: a count file parses when every line unpacks and its
\* second part is an integer.
CountFileParses(file) ==
    \A k \in 1..Len(Lines(file)) :
        /\ Unpacks(Lines(file)[k])
        /\ IsInt(Strip(LineParts(Lines(file)[k])[2]))

\* results.py:130,137: words.strip().split()
WordsValue(text) == Split(Strip(text))
\* results.py:144,151: int(count.strip())
CountValue(text) == StrToInt(Strip(text))

RECURSIVE ParseFrom(_, _, _, _)
\* The for loops at results.py:128-131 and 135-138 (counts FALSE) and at
\* 142-145 and 149-152 (counts TRUE): the dictionary built by assigning
\* the value of the second part to the first part of each line, from the
\* k-th line on.
ParseFrom(lines, k, counts, dict) ==
    IF k > Len(lines) THEN dict
    ELSE LET parts == LineParts(lines[k])
             value == IF counts THEN CountValue(parts[2])
                      ELSE WordsValue(parts[2])
         IN  ParseFrom(lines, k + 1, counts,
                 [t \in DOMAIN dict \cup {parts[1]} |->
                     IF t = parts[1] THEN value ELSE dict[t]])

\* results.py:126-163: whether the reload completes; it raises ValueError
\* on a line that does not unpack or a count that is no integer.
ReloadCompletes(fs) ==
    /\ WordFileParses(fs.final_matched_words)
    /\ WordFileParses(fs.total_words)
    /\ CountFileParses(fs.final_match_counts)
    /\ CountFileParses(fs.total_word_counts)

\* results.py:126-163: the dictionary returned when the reload completes.
create_discipline_matches(fs) ==
    LET final_matched_words ==
            ParseFrom(Lines(fs.final_matched_words), 1, FALSE, <<>>)
        total_words == ParseFrom(Lines(fs.total_words), 1, FALSE, <<>>)
        final_match_counts ==
            ParseFrom(Lines(fs.final_match_counts), 1, TRUE, <<>>)
        total_word_counts ==
            ParseFrom(Lines(fs.total_word_counts), 1, TRUE, <<>>)
    IN  [t \in DOMAIN final_matched_words |->
            [final_matched_words |-> final_matched_words[t],
             final_match_count |-> final_match_counts[t],
             total_words |-> total_words[t],
             total_word_count |-> total_word_counts[t]]]

(***************************************************************************)
(* Specification of the persistence round trip.                            *)
(***************************************************************************)
\* Topic identifiers: a plain one, one ending in a colon, and one holding
\* the separator ": ".
FileTopicPool == {<<"A">>, <<"B", ":">>, <<"A", ":", " ", "B">>}
\* Cleaned words, one of them in the vocabulary.
FileWordPool == {<<"a">>, <<"w", "a", "r">>}
\* A word that still ends in a colon.
ColonWord == <<"b", ":">>
\* A count of more than one digit.
LargeCount == 120

\* The word lists: every list of cleaned words, and every such list with
\* the word ending in a colon put in front of it or after it.
FileWordLists ==
    SeqUpTo(FileWordPool, MaxFileWords)
        \cup {<<ColonWord>> \o l : l \in SeqUpTo(FileWordPool, MaxFileWords - 1)}
        \cup {Append(l, ColonWord) : l \in SeqUpTo(FileWordPool, MaxFileWords - 1)}

\* The entries: any of the word lists as the total words, the matched
\* words being the words of the list that are in the vocabulary, and the
\* counts being the lengths of the lists; for the entry without words also
\* the count of several digits.
FileEntries ==
    {[final_matched_words |-> x[1], final_match_count |-> x[2],
      total_words |-> x[3], total_word_count |-> Len(x[3])] :
        x \in {y \in SeqUpTo(FileWordPool, MaxFileWords)
                       \X ((0..MaxFileWords) \cup {LargeCount})
                       \X FileWordLists :
                  /\ y[1] = SelectSeq(y[3],
                                LAMBDA w : w \in military_terminology)
                  /\ \/ y[2] = Len(y[1])
                     \/ y[3] = <<>> /\ y[2] = LargeCount}}

\* The keys of a dictionary in insertion order: distinct topics.
FileTopics ==
    {ts \in SeqUpTo(FileTopicPool, MaxFileTopics) :
        \A i \in 1..Len(ts) : \A j \in 1..Len(ts) : i # j => ts[i] # ts[j]}

\* The items of a dictionary with the keys ts, each with an entry.
FileItems(ts) ==
    {[k \in 1..Len(ts) |-> [topic |-> ts[k], entry |-> es[k]]] :
        es \in [1..Len(ts) -> FileEntries]}

FilesInit ==
    /\ CleanIdle
    /\ MatchIdle
    /\ LinksIdle
    /\ CrawlIdle
    /\ PlotIdle
    /\ files_pc = "start"
    /\ \E ts \in FileTopics : saved_matches \in FileItems(ts)
    /\ files = <<>>
    /\ reloaded_matches = <<>>

\* write_to_files(discipline_matches)
WriteToFiles ==
    /\ files_pc = "start"
    /\ files' = write_to_files(saved_matches)
    /\ files_pc' = "written"
    /\ UNCHANGED <<saved_matches, reloaded_matches>>
    /\ UNCHANGED <<clean_vars, match_vars, links_vars, crawl_vars,
                   plot_vars>>

\* create_discipline_matches(the four files) returns.
CreateDisciplineMatches ==
    /\ files_pc = "written"
    /\ ReloadCompletes(files)
    /\ reloaded_matches' = create_discipline_matches(files)
    /\ files_pc' = "reloaded"
    /\ UNCHANGED <<saved_matches, files>>
    /\ UNCHANGED <<clean_vars, match_vars, links_vars, crawl_vars,
                   plot_vars>>

\* create_discipline_matches raises ValueError.
CreateDisciplineMatchesRaises ==
    /\ files_pc = "written"
    /\ ~ReloadCompletes(files)
    /\ files_pc' = "raised"
    /\ UNCHANGED <<saved_matches, files, reloaded_matches>>
    /\ UNCHANGED <<clean_vars, match_vars, links_vars, crawl_vars,
                   plot_vars>>

FilesNext ==
    \/ WriteToFiles
    \/ CreateDisciplineMatches
    \/ CreateDisciplineMatchesRaises

SpecFiles == FilesInit /\ [][FilesNext]_vars

\* The dictionary with the given items.
DictOf(items) ==
    [t \in {items[k].topic : k \in 1..Len(items)} |->
        items[CHOOSE k \in 1..Len(items) : items[k].topic = t].entry]

HasSeparator(topic) ==
    \E k \in 1..Len(topic) :
        k + 1 <= Len(topic) /\ topic[k] = ":" /\ topic[k + 1] = " "

\* C10 as stated: writing a dictionary with write_to_files and reloading
\* the four files with create_discipline_matches yields a dictionary equal
\* to the original, for every dictionary.
C10_RoundTripAlways ==
    files_pc \in {"written", "reloaded", "raised"} =>
        /\ files_pc # "raised"
        /\ files_pc = "reloaded" => reloaded_matches = DictOf(saved_matches)

\* A cleaned word: not empty, without whitespace and without ':'.
IsCleanedWord(w) ==
    /\ w # <<>>
    /\ \A i \in 1..Len(w) : w[i] \notin Whitespace /\ w[i] # ":"

\* A dictionary the amended statement speaks of: no topic identifier holds
\* the separator ": " or a line break, every word of both lists is a
\* cleaned word, and the counts are not negative.
IsWellFormed(items) ==
    \A k \in 1..Len(items) :
        /\ ~HasSeparator(items[k].topic)
        /\ \A i \in 1..Len(items[k].topic) : items[k].topic[i] # "\n"
        /\ \A i \in 1..Len(items[k].entry.final_matched_words) :
              IsCleanedWord(items[k].entry.final_matched_words[i])
        /\ \A i \in 1..Len(items[k].entry.total_words) :
              IsCleanedWord(items[k].entry.total_words[i])
        /\ items[k].entry.final_match_count >= 0
        /\ items[k].entry.total_word_count >= 0

\* C10 as amended: for a dictionary of cleaned words, non-negative counts
\* and topic identifiers without the separator ": ", the reload completes
\* and yields a dictionary equal to the original, field by field for every
\* topic (empty word lists included); a topic identifier that holds ": "
\* makes the reload raise ValueError.
C10_RoundTrip ==
    files_pc \in {"written", "reloaded", "raised"} =>
        /\ IsWellFormed(saved_matches) =>
              /\ ReloadCompletes(files)
              /\ files_pc # "raised"
              /\ files_pc = "reloaded" =>
                    reloaded_matches = DictOf(saved_matches)
        /\ (\E k \in 1..Len(saved_matches) :
                HasSeparator(saved_matches[k].topic)) =>
              /\ ~ReloadCompletes(files)
              /\ files_pc # "reloaded"

\* C10 witness: a dictionary of two topics has been written and reloaded:
\* one topic ends in a colon, one has a list of two different words of
\* which one is matched, and one has empty lists and a count of several
\* digits.
C10_Witness ==
    /\ files_pc = "reloaded"
    /\ Len(saved_matches) = 2
    /\ IsWellFormed(saved_matches)
    /\ \E k \in 1..2 : saved_matches[k].topic = <<"B", ":">>
    /\ \E k \in 1..2 :
          /\ Len(saved_matches[k].entry.total_words) = 2
          /\ saved_matches[k].entry.total_words[1]
                # saved_matches[k].entry.total_words[2]
          /\ Len(saved_matches[k].entry.final_matched_words) = 1
    /\ \E k \in 1..2 :
          /\ saved_matches[k].entry.total_words = <<>>
          /\ saved_matches[k].entry.final_matched_words = <<>>
          /\ saved_matches[k].entry.final_match_count = LargeCount

(***************************************************************************)
(* results.plot_stacked_bar_graph                                          *)
(***************************************************************************)
\* results.py:266 with a guard in front of the division.
DivisionGuarded(final_match_count, total_word_count) == FALSE

\* results.py:266: final_match_count / total_word_count on two ints raises
\* ZeroDivisionError exactly when the divisor is 0.
DivisionRaises(final_match_count, total_word_count) == total_word_count = 0

\* results.py:266: (final_match_count / total_word_count) * 100, kept as
\* the exact ratio num/den (the rounding of the float is not modelled).
Percentage(final_match_count, total_word_count) ==
    [num |-> final_match_count * 100, den |-> total_word_count]

RECURSIVE BarsFrom(_, _, _)
\* results.py:263-270: the for loop from the k-th value of the dictionary
\* on; bars holds the three lists built so far.  The loop ends early, with
\* raised set, at the first division that raises.
BarsFrom(items, k, bars) ==
    IF k > Len(items) THEN bars
    ELSE LET total_word_count == items[k].entry.total_word_count
             final_match_count == items[k].entry.final_match_count
         IN  IF DivisionRaises(final_match_count, total_word_count)
             THEN [bars EXCEPT !.raised = TRUE]
             ELSE BarsFrom(items, k + 1,
                      [raised |-> FALSE,
                       percentages |->
                           Append(bars.percentages,
                                  Percentage(final_match_count,
                                             total_word_count)),
                       total_word_counts |->
                           Append(bars.total_word_counts, total_word_count),
                       match_counts |->
                           Append(bars.match_counts, final_match_count)])

\* results.py:259-270
Bars(items) ==
    BarsFrom(items, 1, [raised |-> FALSE, percentages |-> <<>>,
                        total_word_counts |-> <<>>, match_counts |-> <<>>])

\* results.py:271-300: the figure: two bars and a percentage label per
\* topic.
Figure(items, bars) ==
    [discipline_names |-> [k \in 1..Len(items) |-> items[k].topic],
     total_word_counts |-> bars.total_word_counts,
     match_counts |-> bars.match_counts,
     labels |-> bars.percentages]

PlotTopicPool == {"A", "B", "C"}

\* The counts of a topic; the chart reads no other field of an entry.
PlotEntries ==
    [final_match_count : 0..MaxPlotCount, total_word_count : 0..MaxPlotCount]

\* The items of a dictionary, in insertion order: the keys are distinct.
PlotItems ==
    {items \in SeqUpTo([topic : PlotTopicPool, entry : PlotEntries],
                       MaxPlotTopics) :
        \A j, k \in 1..Len(items) : j # k => items[j].topic # items[k].topic}

PlotInit ==
    /\ CleanIdle
    /\ MatchIdle
    /\ LinksIdle
    /\ CrawlIdle
    /\ FilesIdle
    /\ plot_pc = "start"
    /\ plot_matches \in PlotItems
    /\ chart = None

\* plot_stacked_bar_graph(discipline_matches) returns: the chart is shown.
PlotStackedBarGraph ==
    /\ plot_pc = "start"
    /\ ~Bars(plot_matches).raised
    /\ chart' = <<Figure(plot_matches, Bars(plot_matches))>>
    /\ plot_pc' = "shown"
    /\ UNCHANGED plot_matches
    /\ UNCHANGED <<clean_vars, match_vars, links_vars, crawl_vars,
                   files_vars>>

\* results.py:266 raises ZeroDivisionError, which nothing catches: the
\* function is left before plt.figure (results.py:271) is reached.
PlotStackedBarGraphRaises ==
    /\ plot_pc = "start"
    /\ Bars(plot_matches).raised
    /\ plot_pc' = "raised"
    /\ UNCHANGED <<plot_matches, chart>>
    /\ UNCHANGED <<clean_vars, match_vars, links_vars, crawl_vars,
                   files_vars>>

PlotNext == PlotStackedBarGraph \/ PlotStackedBarGraphRaises

SpecPlot == PlotInit /\ [][PlotNext]_vars

HasZeroTotal(items) ==
    \E k \in 1..Len(items) : items[k].entry.total_word_count = 0

\* C13: the percentage computation of the stacked bar chart is not
\* guarded: when some topic has a total word count of zero, the call ends
\* in a division-by-zero error, no percentage is produced and no chart is
\* drawn for any topic.
C13_ZeroTotalRaises ==
    (plot_pc # "start" /\ HasZeroTotal(plot_matches)) =>
        plot_pc = "raised" /\ chart = None

\* C13 witness: the chart was asked for a topic with words and matches
\* followed by a topic without any word; the call raised and nothing was
\* drawn.
C13_Witness ==
    /\ plot_pc = "raised"
    /\ Len(plot_matches) = 2
    /\ plot_matches[1].entry.total_word_count > 0
    /\ plot_matches[1].entry.final_match_count > 0
    /\ plot_matches[2].entry.total_word_count = 0
    /\ chart = None

====
